---- MODULE Spec2Model ----
\* Model of the multilingual voice-chat assistant: the GUI of gui_app.py
\* (MultilingualGUI, started by main.py or by gui_app.main) and the GUI of
\* voice_assistant.py (ImprovedMultilingualGUI).  One Tk foreground thread runs
\* the callbacks; conversation-loop workers, typed-text workers and audio
\* threads are background threads whose steps interleave with it.
EXTENDS Integers, Sequences, FiniteSets, TLC

\* ------------------------------------------------------------------ bounds
\* start-conversation clicks; each accepted one spawns one loop worker
MaxStarts == 2
\* stop-conversation clicks
MaxStops == 1
\* typed messages sent; each spawns one text worker
MaxSends == 1
\* capture attempts, over all loop workers
MaxListens == 1
\* language combobox selections
MaxUpdates == 2
\* requests of the user (start, stop, send, language selection) altogether
MaxEvents == 3
\* failures of the external services (translation, inference, synthesis,
\* playback) in one session
MaxFaults == 1

\* ------------------------------------------------------------------- texts
\* A text is a sequence of tokens; what the user speaks or types is a sequence
\* of one-character tokens, so that lower() and strip() are computed.
Hola == <<"H", "o", "l", "a">>
StopCap == <<"S", "t", "o", "p">>
PleaseStopNow ==
  <<"p", "l", "e", "a", "s", "e", " ", "s", "t", "o", "p", " ", "n", "o", "w">>
Blank == <<" ">>
Placeholder == <<"T", "y", "p", "e", " ", "m", "e", "s", "s", "a", "g", "e">>

\* what recognize_google may return
Utterances == {StopCap, PleaseStopNow, Blank}
\* what the text entry may hold when Send is pressed
Typed == {Hola, <<" ">> \o Hola, Placeholder, <<>>}

\* str.lower() on the characters that occur
LowerChar(c) ==
  CASE c = "S" -> "s"
    [] c = "H" -> "h"
    [] c = "T" -> "t"
    [] OTHER -> c
lower(s) == [i \in 1..Len(s) |-> LowerChar(s[i])]

RECURSIVE lstrip(_)
lstrip(s) == IF s # <<>> /\ Head(s) = " " THEN lstrip(Tail(s)) ELSE s
RECURSIVE rstrip(_)
rstrip(s) ==
  IF s # <<>> /\ s[Len(s)] = " " THEN rstrip(SubSeq(s, 1, Len(s) - 1)) ELSE s
\* str.strip()
strip(s) == rstrip(lstrip(s))

\* the literal list of voice_loop
StopWords ==
  { <<"s", "t", "o", "p">>, <<"e", "x", "i", "t">>, <<"q", "u", "i", "t">>,
    <<"g", "o", "o", "d", "b", "y", "e">> }

\* ------------------------------------------------------------- languages
\* languages_dict: name -> [recognition locale, translation code]
languages_dict ==
  [ english |-> <<"en-US", "en">>,
    spanish |-> <<"es-ES", "es">> ]
LangNames == DOMAIN languages_dict
\* str.title() on the names that occur
title(name) ==
  CASE name = "english" -> "English"
    [] name = "spanish" -> "Spanish"
\* [lang_name.title()] + languages_dict[lang_name]
Profile(name) == <<title(name), languages_dict[name][1], languages_dict[name][2]>>
Profiles == {Profile(n) : n \in LangNames}

\* ------------------------------------------------------ external services
\* GoogleTranslator(source, target).translate(text), when it succeeds
translate(text, source, target) ==
  <<"[" , source, "->", target, ":">> \o text \o <<"]">>
\* model.generate_content(prompt).text, when it succeeds
generate_content(prompt) == <<"[reply:">> \o prompt \o <<"]">>
Apology == <<"I'm sorry, I couldn't process that request.">>
\* GeminiClient.chat_with_gemini: the try/except maps every failure of the
\* service to the fixed apology
chat_with_gemini(prompt, ok) ==
  IF ok THEN strip(generate_content(prompt)) ELSE Apology
None == <<>>
\* GeminiClient.text_to_speech: the file name, or None on any failure
text_to_speech(text, language, ok) ==
  IF ok THEN <<"mp3:", language>> \o text ELSE None

\* exceptions, as the text str(e) gives
TranslationError == <<"TranslationError">>
PlaybackError == <<"PlaybackError">>
DeviceError == <<"DeviceError">>
AttributeError == <<"AttributeError: gemini_client">>
Unbound == <<"<unbound>">>

\* ---------------------------------------------------------- configurations
\* The process environment and the optional imports of voice_assistant.py.
\* gui_app.py imports its modules unconditionally.
Configs ==
  { [entry |-> e, key |-> k, voice |-> TRUE, translator |-> TRUE,
     gemini |-> TRUE, audio |-> TRUE] :
       e \in {"main.py", "voice_assistant.py"}, k \in BOOLEAN }
  \cup
  { [entry |-> "gui_app.py", key |-> FALSE, voice |-> TRUE, translator |-> TRUE,
     gemini |-> TRUE, audio |-> TRUE] }
  \cup
  { [entry |-> "voice_assistant.py", key |-> TRUE, voice |-> v,
     translator |-> t, gemini |-> g, audio |-> a] :
       <<v, t, g, a>> \in { <<FALSE, TRUE, TRUE, TRUE>>, <<TRUE, FALSE, TRUE, TRUE>>,
                            <<TRUE, TRUE, FALSE, TRUE>>, <<TRUE, TRUE, TRUE, FALSE>> } }

LoopWorkers == 1..MaxStarts
TextWorkers == (MaxStarts + 1)..(MaxStarts + MaxSends)
Workers == LoopWorkers \cup TextWorkers

VARIABLES
  cfg,                  \* the configuration the process runs under
  conversation_active,  \* self.conversation_active
  input_language,       \* self.input_language
  output_language,      \* self.output_language
  controls,             \* start button and status label: "ready" | "listening"
  display,              \* the chat display: the Messages appended so far
  notices,              \* message boxes shown
  afterQ,               \* callbacks scheduled with root.after(0, ...)
  tkErrors,             \* exceptions raised inside Tk callbacks
  wk,                   \* the background workers: position and locals
  audio,                \* play_response_audio threads not yet run
  plays,                \* play_audio calls the audio threads have made
  used                  \* how much of each bound has been used

vars ==
  <<cfg, conversation_active, input_language, output_language, controls,
    display, notices, afterQ, tkErrors, wk, audio, plays, used>>

\* the user has requests left
Events == used.starts + used.stops + used.sends + used.updates
MayRequest == Events < MaxEvents

\* which GUI class runs; main.py returns before creating one without the key
App ==
  IF cfg.entry = "voice_assistant.py" THEN "improved"
  ELSE IF cfg.entry = "main.py" /\ ~cfg.key THEN "none"
  ELSE "gui"

\* hasattr(self, 'gemini_client') after setup_voice_components
has_gemini_client == cfg.key /\ cfg.gemini
\* self.voice_enabled
voice_enabled == cfg.voice

Msg(kind, text, by, turn) == [kind |-> kind, text |-> text, by |-> by, turn |-> turn]
Call(op, text, source, target) ==
  [op |-> op, text |-> text, source |-> source, target |-> target]

NoWorker ==
  [ pc |-> "none", message |-> <<>>, user_text |-> Unbound, message_english |-> <<>>,
    response |-> <<>>, translated |-> <<>>, audio_file |-> None, e |-> Unbound,
    pe |-> Unbound, device_error |-> FALSE,
    \* the record of the turn in progress: its number, the adapter calls made,
    \* the profile pair when it started, the codes in force at stages 1 and 3
    turn |-> 0, calls |-> <<>>, snapIn |-> Profile("english"),
    snapOut |-> Profile("english"), inCode |-> "", outCode |-> "" ]

\* the messages setup_voice_components and check_dependencies leave
InitDisplay(c) ==
  IF c.entry = "voice_assistant.py"
  THEN (IF c.voice THEN <<Msg("system", <<"Voice recognition initialized">>, "ui", 0)>>
        ELSE <<>>)
       \o (IF ~c.key THEN <<Msg("system", <<"GEMINI_API_KEY not found">>, "ui", 0)>>
           ELSE IF c.gemini
             THEN <<Msg("system", <<"AI assistant initialized">>, "ui", 0)>>
             ELSE <<Msg("error", <<"Gemini client not available">>, "ui", 0)>>)
       \o (IF c.voice /\ c.translator /\ c.gemini /\ c.audio THEN <<>>
           ELSE <<Msg("system", <<"Missing dependencies">>, "ui", 0)>>)
  ELSE IF c.entry = "main.py" /\ ~c.key THEN <<>>
  ELSE IF ~c.key THEN <<Msg("system", <<"GEMINI_API_KEY not found">>, "ui", 0)>>
  ELSE <<Msg("system", <<"Voice assistant initialized">>, "ui", 0)>>

Init ==
  /\ cfg \in Configs
  /\ conversation_active = FALSE
  /\ input_language = Profile("english")
  /\ output_language = Profile("english")
  /\ controls = "ready"
  /\ display = InitDisplay(cfg)
  /\ notices = IF cfg.entry = "main.py" /\ ~cfg.key THEN <<"Configuration Error">> ELSE <<>>
  /\ afterQ = <<>>
  /\ tkErrors = 0
  /\ wk = [w \in Workers |-> NoWorker]
  /\ audio = <<>>
  /\ plays = {}
  /\ used = [starts |-> 0, stops |-> 0, sends |-> 0, listens |-> 0, updates |-> 0,
             turns |-> 0, faults |-> 0]

\* ------------------------------------------------------------- foreground
\* add_message, run by thread `by` for turn `turn` (0: no turn)
add_message(d, kind, text, by, turn) == Append(d, Msg(kind, text, by, turn))

\* threading.Thread(target=...).start(): the worker's first position
Spawn(w, pc, message) == [wk EXCEPT ![w] = [NoWorker EXCEPT !.pc = pc, !.message = message]]

\* gui_start_conversation with a start that works once only: after the first
\* click the button does nothing
gui_start_conversation_once ==
  /\ App = "gui"
  /\ used.starts < MaxStarts
  /\ MayRequest
  /\ used' = [used EXCEPT !.starts = @ + 1]
  /\ IF ~has_gemini_client
     THEN /\ notices' = Append(notices, "Error")
          /\ UNCHANGED <<conversation_active, controls, display, wk>>
     ELSE IF ~conversation_active /\ used.starts = 0
     THEN /\ conversation_active' = TRUE
          /\ controls' = "listening"
          /\ display' = add_message(display, "system", <<"Voice conversation started">>, "ui", 0)
          /\ wk' = Spawn(used.starts + 1, "loop_top", <<>>)
          /\ UNCHANGED notices
     ELSE UNCHANGED <<conversation_active, controls, display, wk, notices>>
  /\ UNCHANGED <<cfg, input_language, output_language, afterQ, tkErrors, audio, plays>>

\* MultilingualGUI.start_conversation
gui_start_conversation ==
  /\ App = "gui"
  /\ used.starts < MaxStarts
  /\ MayRequest
  /\ used' = [used EXCEPT !.starts = @ + 1]
  /\ IF ~has_gemini_client
     THEN /\ notices' = Append(notices, "Error")
          /\ UNCHANGED <<conversation_active, controls, display, wk, plays>>
     ELSE IF ~conversation_active
     THEN /\ conversation_active' = TRUE
          /\ controls' = "listening"
          /\ display' = add_message(display, "system", <<"Voice conversation started">>, "ui", 0)
          /\ wk' = Spawn(used.starts + 1, "loop_top", <<>>)
          /\ UNCHANGED notices
     ELSE UNCHANGED <<conversation_active, controls, display, wk, notices, plays>>
  /\ UNCHANGED <<cfg, input_language, output_language, afterQ, tkErrors, audio, plays>>

\* ImprovedMultilingualGUI.start_conversation
va_start_conversation ==
  /\ App = "improved"
  /\ used.starts < MaxStarts
  /\ MayRequest
  /\ used' = [used EXCEPT !.starts = @ + 1]
  /\ IF ~voice_enabled
     THEN /\ notices' = Append(notices, "Voice Unavailable")
          /\ UNCHANGED <<conversation_active, controls, wk, plays>>
     ELSE IF conversation_active
     THEN /\ notices' = Append(notices, "Already Active")
          /\ UNCHANGED <<conversation_active, controls, wk, plays>>
     ELSE /\ conversation_active' = TRUE
          /\ controls' = "listening"
          /\ wk' = Spawn(used.starts + 1, "loop_top", <<>>)
          /\ UNCHANGED notices
  /\ UNCHANGED <<cfg, input_language, output_language, display, afterQ, tkErrors, audio, plays>>

\* stop_conversation of either class, as the body the Stop button and the
\* scheduled callback both run
StopBody ==
  /\ conversation_active' = FALSE
  /\ controls' = "ready"
  /\ display' = add_message(display, "system", <<"Conversation stopped">>, "ui", 0)

\* the Stop button
stop_conversation ==
  /\ App # "none"
  /\ used.stops < MaxStops
  /\ MayRequest
  /\ used' = [used EXCEPT !.stops = @ + 1]
  /\ StopBody
  /\ UNCHANGED <<cfg, input_language, output_language, notices, afterQ, tkErrors, wk, audio, plays>>

\* send_text_message of either class: strip, refuse the empty text and the
\* placeholder, start a worker on process_text_message
send_text_message ==
  /\ App # "none"
  /\ used.sends < MaxSends
  /\ MayRequest
  /\ \E entry \in Typed :
       LET message == strip(entry) IN
       /\ used' = [used EXCEPT !.sends = @ + 1]
       /\ IF message # <<>> /\ message # Placeholder
          THEN wk' = Spawn(MaxStarts + used.sends + 1,
                           IF App = "gui" THEN "pt_user" ELSE "pm_user", message)
          ELSE UNCHANGED wk
  /\ UNCHANGED <<cfg, conversation_active, input_language, output_language, controls,
                 display, notices, afterQ, tkErrors, audio, plays>>

\* update_input_language: the combobox selection replaces self.input_language
update_input_language ==
  /\ App # "none"
  /\ used.updates < MaxUpdates
  /\ MayRequest
  /\ \E name \in LangNames :
       /\ Profile(name) # input_language
       /\ input_language' = Profile(name)
  /\ used' = [used EXCEPT !.updates = @ + 1]
  /\ UNCHANGED <<cfg, conversation_active, output_language, controls, display, notices,
                 afterQ, tkErrors, wk, audio, plays>>

\* update_output_language
update_output_language ==
  /\ App # "none"
  /\ used.updates < MaxUpdates
  /\ MayRequest
  /\ \E name \in LangNames :
       /\ Profile(name) # output_language
       /\ output_language' = Profile(name)
  /\ used' = [used EXCEPT !.updates = @ + 1]
  /\ UNCHANGED <<cfg, conversation_active, input_language, controls, display, notices,
                 afterQ, tkErrors, wk, audio, plays>>

\* A callback scheduled by a worker of gui_app.py with root.after(0, ...).  A
\* lambda reads the variables it closes over when it runs, not when it was made.
Callback(fn, w, text, turn) == [fn |-> fn, w |-> w, text |-> text, turn |-> turn]

\* the Tk main loop runs the oldest scheduled callback
RunAfter ==
  /\ afterQ # <<>>
  /\ LET cb == Head(afterQ) IN
     /\ afterQ' = Tail(afterQ)
     /\ CASE cb.fn = "stop_conversation" ->
               /\ StopBody
               /\ UNCHANGED tkErrors
          [] cb.fn = "add_user" ->
               \* lambda: self.add_message("user", user_text)
               /\ display' = add_message(display, "user", wk[cb.w].user_text, "ui", cb.turn)
               /\ UNCHANGED <<conversation_active, controls, tkErrors, plays>>
          [] cb.fn = "add_assistant" ->
               /\ display' = add_message(display, "assistant", cb.text, "ui", cb.turn)
               /\ UNCHANGED <<conversation_active, controls, tkErrors, plays>>
          [] cb.fn = "add_error" ->
               /\ display' = add_message(display, "error", cb.text, "ui", cb.turn)
               /\ UNCHANGED <<conversation_active, controls, tkErrors, plays>>
          [] cb.fn = "add_voice_error" ->
               \* lambda: self.add_message("error", f"Voice error: {e}"): e is
               \* unbound once the except block of voice_loop has ended
               IF wk[cb.w].e = Unbound
               THEN /\ tkErrors' = tkErrors + 1
                    /\ UNCHANGED <<conversation_active, controls, display, plays>>
               ELSE /\ display' = add_message(display, "error",
                                     <<"Voice error: ">> \o wk[cb.w].e, "ui", cb.turn)
                    /\ UNCHANGED <<conversation_active, controls, tkErrors, plays>>
          [] cb.fn = "add_processing_error" ->
               \* lambda: self.add_message("error", f"Processing error: {e}")
               IF wk[cb.w].pe = Unbound
               THEN /\ tkErrors' = tkErrors + 1
                    /\ UNCHANGED <<conversation_active, controls, display, plays>>
               ELSE /\ display' = add_message(display, "error",
                                     <<"Processing error: ">> \o wk[cb.w].pe, "ui", cb.turn)
                    /\ UNCHANGED <<conversation_active, controls, tkErrors, plays>>
          [] cb.fn = "name_error" ->
               \* the lambda of a process_voice_message frame whose except
               \* block has ended: NameError inside the Tk callback
               /\ tkErrors' = tkErrors + 1
               /\ UNCHANGED <<conversation_active, controls, display, plays>>
  /\ UNCHANGED <<cfg, input_language, output_language, notices, wk, audio, used, plays>>

\* ------------------------------------------------------ pipeline stages
\* everything but the workers and the bounds used
Shared ==
  <<cfg, conversation_active, input_language, output_language, controls, display,
    notices, afterQ, tkErrors, audio, plays>>

\* `if self.input_language[2] != 'en'` / `if self.output_language[2] != 'en'`
NeedsTranslation(code) == code # "en"

\* a turn starts: the locals of the previous turn are gone; the profile pair
\* of the moment is noted (for a spoken turn of voice_assistant.py, the pair
\* when the utterance was recognized)
BeginTurn(r, pc, message, turn) ==
  [r EXCEPT !.pc = pc, !.message = message, !.message_english = <<>>,
            !.response = <<>>, !.translated = <<>>, !.audio_file = None,
            !.pe = Unbound, !.calls = <<>>, !.turn = turn,
            !.snapIn = IF r.pc = "pm_user" /\ r.user_text # Unbound
                       THEN r.snapIn ELSE input_language,
            !.snapOut = IF r.pc = "pm_user" /\ r.user_text # Unbound
                        THEN r.snapOut ELSE output_language,
            !.inCode = "", !.outCode = ""]

\* process_*_message has returned: its frame and locals are gone
EndTurn(r, pc) ==
  [r EXCEPT !.pc = pc, !.message = <<>>, !.message_english = <<>>,
            !.response = <<>>, !.translated = <<>>, !.audio_file = None,
            !.pe = Unbound, !.calls = <<>>, !.turn = 0,
            !.snapIn = Profile("english"), !.snapOut = Profile("english"),
            !.inCode = "", !.outCode = ""]

\* whether the next call of an external service may fail
Outcomes == IF used.faults < MaxFaults THEN BOOLEAN ELSE {TRUE}
\* 1 if a call was made by the step from r to r2 and it failed
Failed(r, r2, ok) == IF ~ok /\ Len(r2.calls) > Len(r.calls) THEN 1 ELSE 0
Charge(n) == [used EXCEPT !.faults = @ + n]

\* Inbound without the test of the code: the translation to English is called
\* whatever the input profile is
Inbound_always(r, available, code, ok, okpc, excpc) ==
  LET c == Call("translate", r.message, "auto", "en") IN
  IF ok
  THEN [r EXCEPT !.pc = okpc, !.calls = Append(@, c), !.inCode = code,
                 !.message_english = translate(r.message, "auto", "en")]
  ELSE [r EXCEPT !.pc = excpc, !.calls = Append(@, c), !.inCode = code,
                 !.pe = TranslationError]

\* stage 1: GoogleTranslator(source='auto', target='en').translate(message),
\* or the message itself
\* (`available` is TRANSLATOR_AVAILABLE, `code` is self.input_language[2])
Inbound(r, available, code, ok, okpc, excpc) ==
  IF available /\ NeedsTranslation(code)
  THEN LET c == Call("translate", r.message, "auto", "en") IN
       IF ok
       THEN [r EXCEPT !.pc = okpc, !.calls = Append(@, c), !.inCode = code,
                      !.message_english = translate(r.message, "auto", "en")]
       ELSE [r EXCEPT !.pc = excpc, !.calls = Append(@, c), !.inCode = code,
                      !.pe = TranslationError]
  ELSE [r EXCEPT !.pc = okpc, !.inCode = code, !.message_english = r.message]

\* Infer with a chat_with_gemini that lets the failure of the service out
Infer_raises(r, client, ok, okpc, excpc) ==
  IF ~client
  THEN [r EXCEPT !.pc = excpc, !.pe = AttributeError]
  ELSE IF ok
  THEN [r EXCEPT !.pc = okpc, !.calls = Append(@, Call("infer", r.message_english, "", "")),
                 !.response = chat_with_gemini(r.message_english, ok)]
  ELSE [r EXCEPT !.pc = excpc, !.calls = Append(@, Call("infer", r.message_english, "", "")),
                 !.pe = <<"ServiceError">>]

\* stage 2: self.gemini_client.chat_with_gemini(message_english)
Infer(r, client, ok, okpc, excpc) ==
  IF ~client
  THEN [r EXCEPT !.pc = excpc, !.pe = AttributeError]
  ELSE [r EXCEPT !.pc = okpc, !.calls = Append(@, Call("infer", r.message_english, "", "")),
                 !.response = chat_with_gemini(r.message_english, ok)]

\* Outbound without the test of the code: the translation from English is
\* called whatever the output profile is
Outbound_always(r, available, code, needpc, okpc) ==
  [r EXCEPT !.pc = needpc, !.outCode = code]

\* stage 3: GoogleTranslator(source='en', target=code).translate(response),
\* or the response itself
\* (`code` is self.output_language[2] as the `if` reads it; the call on the
\* next line reads self.output_language[2] again, see OutboundTranslate)
Outbound(r, available, code, needpc, okpc) ==
  IF available /\ NeedsTranslation(code)
  THEN [r EXCEPT !.pc = needpc, !.outCode = code]
  ELSE [r EXCEPT !.pc = okpc, !.outCode = code, !.translated = r.response]

\* GoogleTranslator(source='en', target=self.output_language[2]).translate(response):
\* `target` is self.output_language[2] as this line reads it
OutboundTranslate(r, target, ok, okpc, excpc) ==
  LET c == Call("translate", r.response, "en", target) IN
  IF ok
  THEN [r EXCEPT !.pc = okpc, !.calls = Append(@, c),
                 !.translated = translate(r.response, "en", target)]
  ELSE [r EXCEPT !.pc = excpc, !.calls = Append(@, c), !.pe = TranslationError]

\* Synthesize handed the reply of stage 2 in the place of the output of
\* stage 3
Synthesize_reply(r, code, ok, playpc, retpc) ==
  LET f == text_to_speech(r.response, code, ok) IN
  [r EXCEPT !.pc = IF f # None THEN playpc ELSE retpc, !.audio_file = f,
            !.calls = Append(@, Call("synthesize", r.response, "", code))]

\* stage 4: self.gemini_client.text_to_speech(translated_response, code);
\* `if audio_file:` decides whether stage 5 runs
Synthesize(r, code, ok, playpc, retpc) ==
  LET f == text_to_speech(r.translated, code, ok) IN
  [r EXCEPT !.pc = IF f # None THEN playpc ELSE retpc, !.audio_file = f,
            !.calls = Append(@, Call("synthesize", r.translated, "", code))]

\* stage 5: play_audio(audio_file)
Play(r, ok, retpc, excpc) ==
  LET c == Call("play", r.audio_file, "", "") IN
  IF ok THEN [r EXCEPT !.pc = retpc, !.calls = Append(@, c)]
  ELSE [r EXCEPT !.pc = excpc, !.calls = Append(@, c), !.pe = PlaybackError]

\* --------------------------------------- gui_app.py: the conversation loop
\* `user_text.lower() in ['stop', 'exit', 'quit', 'goodbye']`
is_stop_word(user_text) == lower(user_text) \in StopWords

\* `while self.conversation_active:`
gui_voice_loop_top(w) ==
  /\ App = "gui"
  /\ w \in LoopWorkers
  /\ wk[w].pc = "loop_top"
  /\ wk' = [wk EXCEPT ![w].pc = IF conversation_active THEN "listen" ELSE "done"]
  /\ UNCHANGED <<Shared, used>>

\* gui_listen_timeout with `break` in the place of `continue`
gui_listen_timeout_breaks(w) ==
  /\ App = "gui"
  /\ wk[w].pc = "listen"
  /\ wk' = [wk EXCEPT ![w].pc = "done"]
  /\ UNCHANGED <<Shared, used>>

\* recognizer.listen raises WaitTimeoutError: `continue`
gui_listen_timeout(w) ==
  /\ App = "gui"
  /\ wk[w].pc = "listen"
  /\ wk' = [wk EXCEPT ![w].pc = "loop_top"]
  /\ UNCHANGED <<Shared, used>>

\* recognize_google raises UnknownValueError
gui_listen_unknown(w) ==
  /\ App = "gui"
  /\ wk[w].pc = "listen"
  /\ used.listens < MaxListens
  /\ used' = [used EXCEPT !.listens = @ + 1]
  /\ afterQ' = Append(afterQ, Callback("add_error", w, <<"Could not understand audio">>, 0))
  /\ wk' = [wk EXCEPT ![w].pc = "loop_top"]
  /\ UNCHANGED <<cfg, conversation_active, input_language, output_language, controls,
                 display, notices, tkErrors, audio, plays>>

\* sr.Microphone(), listen or recognize_google raises anything else (no
\* microphone, the recognition API unreachable): `except Exception as e`
gui_listen_error(w) ==
  /\ App = "gui"
  /\ wk[w].pc = "listen"
  /\ used.listens < MaxListens
  /\ used' = [used EXCEPT !.listens = @ + 1]
  /\ afterQ' = Append(afterQ, Callback("add_voice_error", w, <<>>, 0))
  /\ wk' = [wk EXCEPT ![w].pc = "vl_sleep", ![w].e = DeviceError,
                      ![w].device_error = TRUE]
  /\ UNCHANGED <<cfg, conversation_active, input_language, output_language, controls,
                 display, notices, tkErrors, audio, plays>>

\* time.sleep(1) is over and the except block ends: e is unbound again
gui_voice_loop_sleep(w) ==
  /\ App = "gui"
  /\ wk[w].pc = "vl_sleep"
  /\ wk' = [wk EXCEPT ![w].pc = "loop_top", ![w].e = Unbound]
  /\ UNCHANGED <<Shared, used>>

\* recognize_google returns user_text: a stop word ends the loop, anything
\* else is posted as the user Message and handed to process_voice_message
gui_listen_text(w) ==
  /\ App = "gui"
  /\ wk[w].pc = "listen"
  /\ used.listens < MaxListens
  /\ \E user_text \in Utterances :
       IF is_stop_word(user_text)
       THEN /\ afterQ' = Append(afterQ, Callback("stop_conversation", w, <<>>, 0))
            /\ wk' = [wk EXCEPT ![w].pc = "done", ![w].user_text = user_text]
            /\ used' = [used EXCEPT !.listens = @ + 1]
       ELSE LET turn == used.turns + 1 IN
            /\ afterQ' = Append(afterQ, Callback("add_user", w, <<>>, turn))
            /\ wk' = [wk EXCEPT ![w] = BeginTurn([wk[w] EXCEPT !.user_text = user_text],
                                                 "pv_in", user_text, turn)]
            /\ used' = [used EXCEPT !.listens = @ + 1, !.turns = turn]
  /\ UNCHANGED <<cfg, conversation_active, input_language, output_language, controls,
                 display, notices, tkErrors, audio, plays>>

\* ------------------------------------ gui_app.py: process_voice_message
\* A step of a worker ends where it next reads or writes what it shares with
\* other threads; calls that touch only its locals belong to the step before.
\* Stages 1 and 2: the translation to English if needed, then chat_with_gemini
gui_pv_inbound(w) ==
  /\ App = "gui"
  /\ wk[w].pc = "pv_in"
  /\ \E ok1 \in Outcomes, ok2 \in Outcomes :
       LET r1 == Inbound(wk[w], TRUE, input_language[3], ok1, "infer", "pv_exc")
           r2 == IF r1.pc = "infer"
                 THEN Infer(r1, has_gemini_client, ok2, "pv_out", "pv_exc") ELSE r1
           n == Failed(wk[w], r1, ok1) + Failed(r1, r2, ok2) IN
       /\ used.faults + n <= MaxFaults
       /\ wk' = [wk EXCEPT ![w] = r2]
       /\ used' = Charge(n)
  /\ UNCHANGED Shared

\* stage 3, `if self.output_language[2] != 'en':`
gui_pv_outbound(w) ==
  /\ App = "gui"
  /\ wk[w].pc = "pv_out"
  /\ wk' = [wk EXCEPT ![w] = Outbound(wk[w], TRUE, output_language[3], "pv_tr", "pv_say")]
  /\ UNCHANGED <<Shared, used>>

\* stage 3, the translation of the response
gui_pv_translate(w) ==
  /\ App = "gui"
  /\ wk[w].pc = "pv_tr"
  /\ \E ok \in Outcomes :
       LET r == OutboundTranslate(wk[w], output_language[3], ok, "pv_say", "pv_exc") IN
       /\ wk' = [wk EXCEPT ![w] = r]
       /\ used' = Charge(Failed(wk[w], r, ok))
  /\ UNCHANGED Shared

\* root.after(0, lambda: self.add_message("assistant", translated_response)),
\* then stage 4, text_to_speech, and stage 5, `if audio_file: play_audio(...)`
gui_pv_say(w) ==
  /\ App = "gui"
  /\ wk[w].pc = "pv_say"
  /\ afterQ' = Append(afterQ, Callback("add_assistant", w, wk[w].translated, wk[w].turn))
  /\ \E ok1 \in Outcomes, ok2 \in Outcomes :
       LET r1 == Synthesize(wk[w], output_language[3], ok1, "play", "pv_ret")
           r2 == IF r1.pc = "play" THEN Play(r1, ok2, "pv_ret", "pv_exc") ELSE r1
           n == Failed(wk[w], r1, ok1) + Failed(r1, r2, ok2) IN
       /\ used.faults + n <= MaxFaults
       /\ wk' = [wk EXCEPT ![w] = r2]
       /\ used' = Charge(n)
  /\ UNCHANGED <<cfg, conversation_active, input_language, output_language, controls,
                 display, notices, tkErrors, audio, plays>>

\* `except Exception as e:` schedules the lambda that reads e
gui_pv_except(w) ==
  /\ App = "gui"
  /\ wk[w].pc = "pv_exc"
  /\ afterQ' = Append(afterQ, Callback("add_processing_error", w, <<>>, wk[w].turn))
  /\ wk' = [wk EXCEPT ![w].pc = "pv_exc_end"]
  /\ UNCHANGED <<cfg, conversation_active, input_language, output_language, controls,
                 display, notices, tkErrors, audio, plays, used>>

\* the except block ends, which unbinds e in the frame the lambda closed over
gui_pv_except_end(w) ==
  /\ App = "gui"
  /\ wk[w].pc = "pv_exc_end"
  /\ afterQ' = [i \in 1..Len(afterQ) |->
                  IF afterQ[i].fn = "add_processing_error" /\ afterQ[i].w = w
                  THEN [afterQ[i] EXCEPT !.fn = "name_error"] ELSE afterQ[i]]
  /\ wk' = [wk EXCEPT ![w].pc = "pv_ret", ![w].pe = Unbound]
  /\ UNCHANGED <<cfg, conversation_active, input_language, output_language, controls,
                 display, notices, tkErrors, audio, plays, used>>

\* process_voice_message returns to voice_loop, which evaluates
\* `while self.conversation_active:` again
gui_pv_return(w) ==
  /\ App = "gui"
  /\ wk[w].pc = "pv_ret"
  /\ wk' = [wk EXCEPT ![w] = EndTurn(wk[w], IF conversation_active THEN "listen" ELSE "done")]
  /\ UNCHANGED <<Shared, used>>

\* ------------------------------------- gui_app.py: process_text_message
\* self.add_message("user", message), from the worker thread
gui_pt_user(w) ==
  /\ App = "gui"
  /\ wk[w].pc = "pt_user"
  /\ LET turn == used.turns + 1 IN
     /\ display' = add_message(display, "user", wk[w].message, "worker", turn)
     /\ wk' = [wk EXCEPT ![w] = BeginTurn(wk[w], "pt_in", wk[w].message, turn)]
     /\ used' = [used EXCEPT !.turns = turn]
  /\ UNCHANGED <<cfg, conversation_active, input_language, output_language, controls,
                 notices, afterQ, tkErrors, audio, plays>>

gui_pt_inbound(w) ==
  /\ App = "gui"
  /\ wk[w].pc = "pt_in"
  /\ \E ok1 \in Outcomes, ok2 \in Outcomes :
       LET r1 == Inbound(wk[w], TRUE, input_language[3], ok1, "infer", "pt_exc")
           r2 == IF r1.pc = "infer"
                 THEN Infer(r1, has_gemini_client, ok2, "pt_out", "pt_exc") ELSE r1
           n == Failed(wk[w], r1, ok1) + Failed(r1, r2, ok2) IN
       /\ used.faults + n <= MaxFaults
       /\ wk' = [wk EXCEPT ![w] = r2]
       /\ used' = Charge(n)
  /\ UNCHANGED Shared

\* stage 3, `if self.output_language[2] != 'en':`
gui_pt_outbound(w) ==
  /\ App = "gui"
  /\ wk[w].pc = "pt_out"
  /\ wk' = [wk EXCEPT ![w] = Outbound(wk[w], TRUE, output_language[3], "pt_tr", "pt_say")]
  /\ UNCHANGED <<Shared, used>>

\* stage 3, the translation of the response
gui_pt_translate(w) ==
  /\ App = "gui"
  /\ wk[w].pc = "pt_tr"
  /\ \E ok \in Outcomes :
       LET r == OutboundTranslate(wk[w], output_language[3], ok, "pt_say", "pt_exc") IN
       /\ wk' = [wk EXCEPT ![w] = r]
       /\ used' = Charge(Failed(wk[w], r, ok))
  /\ UNCHANGED Shared

\* self.add_message("assistant", translated_response), then text_to_speech
\* and `if audio_file: play_audio(audio_file)`
gui_pt_say(w) ==
  /\ App = "gui"
  /\ wk[w].pc = "pt_say"
  /\ display' = add_message(display, "assistant", wk[w].translated, "worker", wk[w].turn)
  /\ \E ok1 \in Outcomes, ok2 \in Outcomes :
       LET r1 == Synthesize(wk[w], output_language[3], ok1, "play", "pt_ret")
           r2 == IF r1.pc = "play" THEN Play(r1, ok2, "pt_ret", "pt_exc") ELSE r1
           n == Failed(wk[w], r1, ok1) + Failed(r1, r2, ok2) IN
       /\ used.faults + n <= MaxFaults
       /\ wk' = [wk EXCEPT ![w] = r2]
       /\ used' = Charge(n)
  /\ UNCHANGED <<cfg, conversation_active, input_language, output_language, controls,
                 notices, afterQ, tkErrors, audio, plays>>

\* `except Exception as e: self.add_message("error", ...)`, e still bound
gui_pt_except(w) ==
  /\ App = "gui"
  /\ wk[w].pc = "pt_exc"
  /\ display' = add_message(display, "error", <<"Error processing message: ">> \o wk[w].pe,
                            "worker", wk[w].turn)
  /\ wk' = [wk EXCEPT ![w].pc = "pt_ret", ![w].pe = Unbound]
  /\ UNCHANGED <<cfg, conversation_active, input_language, output_language, controls,
                 notices, afterQ, tkErrors, audio, plays, used>>

\* process_text_message returns and its thread ends
gui_pt_return(w) ==
  /\ App = "gui"
  /\ wk[w].pc = "pt_ret"
  /\ wk' = [wk EXCEPT ![w] = EndTurn(wk[w], "done")]
  /\ UNCHANGED <<Shared, used>>

\* --------------------------- voice_assistant.py: process_text_message
\* self.add_message("user", message), then `if not GEMINI_AVAILABLE`
va_pm_user(w) ==
  /\ App = "improved"
  /\ wk[w].pc = "pm_user"
  /\ LET turn == used.turns + 1
         shown == add_message(display, "user", wk[w].message, "worker", turn) IN
     /\ used' = [used EXCEPT !.turns = turn]
     /\ IF ~cfg.gemini
        THEN /\ display' = add_message(shown, "error", <<"AI assistant not available">>,
                                       "worker", turn)
             /\ wk' = [wk EXCEPT ![w] = BeginTurn(wk[w], "pm_ret", wk[w].message, turn)]
        ELSE /\ display' = shown
             /\ wk' = [wk EXCEPT ![w] = BeginTurn(wk[w], "pm_in", wk[w].message, turn)]
  /\ UNCHANGED <<cfg, conversation_active, input_language, output_language, controls,
                 notices, afterQ, tkErrors, audio, plays>>

\* `if TRANSLATOR_AVAILABLE and self.input_language[2] != 'en'`
va_pm_inbound(w) ==
  /\ App = "improved"
  /\ wk[w].pc = "pm_in"
  /\ \E ok1 \in Outcomes, ok2 \in Outcomes :
       LET r1 == Inbound(wk[w], cfg.translator, input_language[3], ok1, "infer", "pm_exc")
           r2 == IF r1.pc = "infer"
                 THEN Infer(r1, has_gemini_client, ok2, "pm_out", "pm_exc") ELSE r1
           n == Failed(wk[w], r1, ok1) + Failed(r1, r2, ok2) IN
       /\ used.faults + n <= MaxFaults
       /\ wk' = [wk EXCEPT ![w] = r2]
       /\ used' = Charge(n)
  /\ UNCHANGED Shared

\* `if TRANSLATOR_AVAILABLE and self.output_language[2] != 'en'`
va_pm_outbound(w) ==
  /\ App = "improved"
  /\ wk[w].pc = "pm_out"
  /\ wk' = [wk EXCEPT ![w] = Outbound(wk[w], cfg.translator, output_language[3],
                                     "pm_tr", "pm_post")]
  /\ UNCHANGED <<Shared, used>>

\* stage 3, the translation of the response
va_pm_translate(w) ==
  /\ App = "improved"
  /\ wk[w].pc = "pm_tr"
  /\ \E ok \in Outcomes :
       LET r == OutboundTranslate(wk[w], output_language[3], ok, "pm_post", "pm_exc") IN
       /\ wk' = [wk EXCEPT ![w] = r]
       /\ used' = Charge(Failed(wk[w], r, ok))
  /\ UNCHANGED Shared

\* self.add_message("assistant", response_translated), then the audio thread
\* is started
va_pm_post(w) ==
  /\ App = "improved"
  /\ wk[w].pc = "pm_post"
  /\ display' = add_message(display, "assistant", wk[w].translated, "worker", wk[w].turn)
  /\ audio' = IF cfg.audio
              THEN Append(audio, [text |-> wk[w].translated, turn |-> wk[w].turn,
                                  snapOut |-> wk[w].snapOut])
              ELSE audio
  /\ wk' = [wk EXCEPT ![w].pc = "pm_ret"]
  /\ UNCHANGED <<cfg, conversation_active, input_language, output_language, controls,
                 notices, afterQ, tkErrors, plays, used>>

\* `except Exception as e: self.add_message("error", ...)`
va_pm_except(w) ==
  /\ App = "improved"
  /\ wk[w].pc = "pm_exc"
  /\ display' = add_message(display, "error", <<"Failed to process message: ">> \o wk[w].pe,
                            "worker", wk[w].turn)
  /\ wk' = [wk EXCEPT ![w].pc = "pm_ret", ![w].pe = Unbound]
  /\ UNCHANGED <<cfg, conversation_active, input_language, output_language, controls,
                 notices, afterQ, tkErrors, audio, plays, used>>

\* process_text_message returns: the thread of send_text_message ends;
\* listen_for_voice does `return True` and the loop, after time.sleep(0.5),
\* evaluates `while self.conversation_active:` again
va_pm_return(w) ==
  /\ App = "improved"
  /\ wk[w].pc = "pm_ret"
  /\ wk' = [wk EXCEPT ![w] = EndTurn(wk[w], IF w \in LoopWorkers THEN "loop_top" ELSE "done")]
  /\ UNCHANGED <<Shared, used>>

\* play_response_audio, on its own thread: play_audio(text,
\* language=self.output_language[2]); a failure is printed
va_play_response_audio ==
  /\ App = "improved"
  /\ \E i \in 1..Len(audio) :
       /\ audio' = [j \in 1..(Len(audio) - 1) |-> IF j < i THEN audio[j] ELSE audio[j + 1]]
       /\ plays' = plays \cup { [text |-> audio[i].text, turn |-> audio[i].turn,
                                 language |-> output_language[3],
                                 snapOut |-> audio[i].snapOut] }
  /\ UNCHANGED <<cfg, conversation_active, input_language, output_language, controls,
                 display, notices, afterQ, tkErrors, wk, used>>

\* ------------------------- voice_assistant.py: the conversation loop
\* `while self.conversation_active:`
va_loop_top(w) ==
  /\ App = "improved"
  /\ w \in LoopWorkers
  /\ wk[w].pc = "loop_top"
  /\ wk' = [wk EXCEPT ![w].pc = IF conversation_active THEN "listen" ELSE "finally"]
  /\ UNCHANGED <<Shared, used>>

\* listen_for_voice: WaitTimeoutError, `return True`, and time.sleep(0.5)
va_listen_timeout(w) ==
  /\ App = "improved"
  /\ wk[w].pc = "listen"
  /\ wk' = [wk EXCEPT ![w].pc = "loop_top"]
  /\ UNCHANGED <<Shared, used>>

\* listen_for_voice: UnknownValueError, a system Message and `return True`
va_listen_unknown(w) ==
  /\ App = "improved"
  /\ wk[w].pc = "listen"
  /\ used.listens < MaxListens
  /\ used' = [used EXCEPT !.listens = @ + 1]
  /\ display' = add_message(display, "system", <<"Could not understand audio">>, "worker", 0)
  /\ wk' = [wk EXCEPT ![w].pc = "loop_top"]
  /\ UNCHANGED <<cfg, conversation_active, input_language, output_language, controls,
                 notices, afterQ, tkErrors, audio, plays>>

\* listen_for_voice: any other exception, an error Message and `return False`
va_listen_error(w) ==
  /\ App = "improved"
  /\ wk[w].pc = "listen"
  /\ used.listens < MaxListens
  /\ used' = [used EXCEPT !.listens = @ + 1]
  /\ display' = add_message(display, "error", <<"Voice recognition error: ">> \o DeviceError,
                            "worker", 0)
  /\ wk' = [wk EXCEPT ![w].pc = "finally", ![w].device_error = TRUE]
  /\ UNCHANGED <<cfg, conversation_active, input_language, output_language, controls,
                 notices, afterQ, tkErrors, audio, plays>>

\* listen_for_voice: recognize_google returns text; `if text.strip():` runs
\* process_text_message(text), and otherwise the function ends without a
\* return statement, so the loop's `if self.listen_for_voice():` sees None
va_listen_text(w) ==
  /\ App = "improved"
  /\ wk[w].pc = "listen"
  /\ used.listens < MaxListens
  /\ used' = [used EXCEPT !.listens = @ + 1]
  /\ \E text \in Utterances :
       wk' = [wk EXCEPT ![w] =
                IF strip(text) # <<>>
                THEN [wk[w] EXCEPT !.pc = "pm_user", !.message = text, !.user_text = text,
                                   !.snapIn = input_language,
                                   !.snapOut = output_language]
                ELSE [wk[w] EXCEPT !.pc = "finally", !.user_text = text]]
  /\ UNCHANGED <<cfg, conversation_active, input_language, output_language, controls,
                 display, notices, afterQ, tkErrors, audio, plays>>

\* `finally:` of voice_conversation_loop, run by the worker
va_finally(w) ==
  /\ App = "improved"
  /\ wk[w].pc = "finally"
  /\ conversation_active' = FALSE
  /\ controls' = "ready"
  /\ wk' = [wk EXCEPT ![w].pc = "done"]
  /\ UNCHANGED <<cfg, input_language, output_language, display, notices, afterQ,
                 tkErrors, audio, plays, used>>

\* ------------------------------------------------------------------- Next
Next ==
  \/ gui_start_conversation
  \/ va_start_conversation
  \/ stop_conversation
  \/ send_text_message
  \/ update_input_language
  \/ update_output_language
  \/ RunAfter
  \/ va_play_response_audio
  \/ \E w \in Workers :
       \/ gui_voice_loop_top(w)
       \/ gui_listen_timeout(w)
       \/ gui_listen_unknown(w)
       \/ gui_listen_error(w)
       \/ gui_voice_loop_sleep(w)
       \/ gui_listen_text(w)
       \/ gui_pv_inbound(w)
       \/ gui_pv_outbound(w)
       \/ gui_pv_translate(w)
       \/ gui_pv_say(w)
       \/ gui_pv_except(w)
       \/ gui_pv_except_end(w)
       \/ gui_pv_return(w)
       \/ gui_pt_user(w)
       \/ gui_pt_inbound(w)
       \/ gui_pt_outbound(w)
       \/ gui_pt_translate(w)
       \/ gui_pt_say(w)
       \/ gui_pt_except(w)
       \/ gui_pt_return(w)
       \/ va_pm_user(w)
       \/ va_pm_inbound(w)
       \/ va_pm_outbound(w)
       \/ va_pm_translate(w)
       \/ va_pm_post(w)
       \/ va_pm_except(w)
       \/ va_pm_return(w)
       \/ va_loop_top(w)
       \/ va_listen_timeout(w)
       \/ va_listen_unknown(w)
       \/ va_listen_error(w)
       \/ va_listen_text(w)
       \/ va_finally(w)

Spec == Init /\ [][Next]_vars

\* the steps of one background thread
WorkerStep(w) ==
  \/ gui_voice_loop_top(w) \/ gui_listen_timeout(w) \/ gui_listen_unknown(w)
  \/ gui_listen_error(w) \/ gui_voice_loop_sleep(w) \/ gui_listen_text(w)
  \/ gui_pv_inbound(w) \/ gui_pv_outbound(w) \/ gui_pv_translate(w) \/ gui_pv_say(w)
  \/ gui_pv_except(w) \/ gui_pv_except_end(w) \/ gui_pv_return(w)
  \/ gui_pt_user(w) \/ gui_pt_inbound(w) \/ gui_pt_outbound(w) \/ gui_pt_translate(w)
  \/ gui_pt_say(w) \/ gui_pt_except(w) \/ gui_pt_return(w)
  \/ va_pm_user(w) \/ va_pm_inbound(w) \/ va_pm_outbound(w) \/ va_pm_translate(w)
  \/ va_pm_post(w) \/ va_pm_except(w) \/ va_pm_return(w)
  \/ va_loop_top(w) \/ va_listen_timeout(w) \/ va_listen_unknown(w)
  \/ va_listen_error(w) \/ va_listen_text(w) \/ va_finally(w)

\* The operating system schedules every thread that can run, every call of
\* an external service returns or raises (capture has its timeout), and the
\* Tk main loop runs the callbacks scheduled with root.after.
FairSpec ==
  /\ Spec
  /\ WF_vars(RunAfter)
  /\ \A w \in Workers : WF_vars(WorkerStep(w))

\* ------------------------------------------------------------ properties
\* the calls of kind `op` a worker has made in the turn it is in
CallsOf(w, op) ==
  {wk[w].calls[i] : i \in {j \in 1..Len(wk[w].calls) : wk[w].calls[j].op = op}}

\* the Messages of turn t, by kind: those in the chat display, then those
\* still scheduled with root.after
KindOfCallback(fn) ==
  CASE fn = "add_user" -> "user"
    [] fn = "add_assistant" -> "assistant"
    [] OTHER -> "error"
MessagesOf(t) ==
  LET Shown(m) == m.turn = t
      Scheduled(cb) == cb.turn = t /\ cb.fn \notin {"stop_conversation", "name_error"}
      d == SelectSeq(display, Shown)
      q == SelectSeq(afterQ, Scheduled) IN
  [i \in 1..Len(d) |-> d[i].kind] \o [i \in 1..Len(q) |-> KindOfCallback(q[i].fn)]

\* the assistant texts of turn t: shown, scheduled, or handed to an audio thread
AssistantTexts(t) ==
  {display[i].text : i \in {j \in 1..Len(display) :
       display[j].turn = t /\ display[j].kind = "assistant"}}
  \cup {afterQ[i].text : i \in {j \in 1..Len(afterQ) :
       afterQ[j].turn = t /\ afterQ[j].fn = "add_assistant"}}
  \cup {audio[i].text : i \in {j \in 1..Len(audio) : audio[j].turn = t}}

\* C1: in a turn whose input profile has the translation code "en" when the
\* pipeline reaches stage 1, no translation of the input (source 'auto',
\* target 'en') is called, and the
\* prompt handed to chat_with_gemini is exactly the raw input text.
C1_EnglishInputIsPromptVerbatim ==
  \A w \in Workers :
    wk[w].inCode = "en" =>
      /\ \A c \in CallsOf(w, "translate") : c.source # "auto"
      /\ \A c \in CallsOf(w, "infer") : c.text = wk[w].message
      /\ wk[w].message_english = wk[w].message

\* a turn with English input has called chat_with_gemini
C1_Witness ==
  \E w \in Workers :
    /\ wk[w].inCode = "en"
    /\ wk[w].message # <<>>
    /\ CallsOf(w, "infer") = {Call("infer", wk[w].message, "", "")}

\* C2: in a turn whose output profile has the translation code "en" when the
\* pipeline reaches stage 3, no translation from English is called, and the
\* text shown as the assistant Message, handed to text_to_speech or handed to
\* the audio thread is exactly what chat_with_gemini returned.
C2_EnglishOutputIsReplyVerbatim ==
  \A w \in Workers :
    wk[w].outCode = "en" =>
      /\ \A c \in CallsOf(w, "translate") : c.source # "en"
      /\ \A c \in CallsOf(w, "infer") :
           wk[w].response \in {chat_with_gemini(c.text, TRUE), chat_with_gemini(c.text, FALSE)}
      /\ wk[w].translated = wk[w].response
      /\ \A c \in CallsOf(w, "synthesize") : c.text = wk[w].response
      /\ AssistantTexts(wk[w].turn) \subseteq {wk[w].response}

\* a turn with English output has shown its assistant Message
C2_Witness ==
  \E w \in Workers :
    /\ wk[w].outCode = "en"
    /\ wk[w].response # <<>>
    /\ \E i \in 1..Len(display) :
         /\ display[i].kind = "assistant"
         /\ display[i].turn = wk[w].turn
         /\ display[i].text = wk[w].response

\* C4: when the inference service fails, chat_with_gemini returns the fixed
\* apology and raises nothing: the turn goes on from that call with no
\* exception bound and into no exception handler, the reply of the turn is the apology, and the
\* turn, if it ends with stage 3 done, has emitted its assistant Message with
\* the apology (translated when the output profile asks for it).
C4_InferenceFailureIsApology ==
  \A w \in Workers :
    \A c \in CallsOf(w, "infer") :
      /\ wk[w].response \in {Apology, strip(generate_content(c.text))}
      /\ wk[w].calls[Len(wk[w].calls)] = c =>
           /\ wk[w].pe = Unbound
           /\ wk[w].pc \notin {"pv_exc", "pv_exc_end", "pt_exc", "pm_exc"}
      /\ \A d \in CallsOf(w, "translate") : d.source = "en" => d.text = wk[w].response
      /\ (wk[w].response = Apology /\ wk[w].pc \in {"pv_ret", "pt_ret", "pm_ret"}
            /\ wk[w].translated # <<>>) =>
           /\ wk[w].translated \in
                {Apology} \cup {translate(Apology, "en", d.target) :
                                  d \in {t \in CallsOf(w, "translate") : t.source = "en"}}
           /\ AssistantTexts(wk[w].turn) \subseteq {wk[w].translated}
           /\ "assistant" \in {MessagesOf(wk[w].turn)[i] :
                                 i \in 1..Len(MessagesOf(wk[w].turn))}

\* the service failed in a turn, and the turn has shown the apology as its
\* assistant Message and reached its end
C4_Witness ==
  \E w \in Workers :
    /\ wk[w].response = Apology
    /\ wk[w].pc \in {"pv_ret", "pt_ret", "pm_ret"}
    /\ \E i \in 1..Len(display) :
         /\ display[i].kind = "assistant"
         /\ display[i].turn = wk[w].turn
         /\ display[i].text = wk[w].translated

\* C3: in a turn whose input profile is not English, chat_with_gemini is never
\* called with the untranslated raw text; and when the translation to English
\* fails, the turn makes no inference call and, by its end, has reported an
\* error Message (shown, or scheduled to be shown).
C3_InboundFailureIsReported ==
  \A w \in Workers :
    wk[w].inCode \notin {"", "en"} =>
      /\ \A c \in CallsOf(w, "infer") : c.text # wk[w].message
      /\ (/\ wk[w].pc \in {"pv_ret", "pt_ret", "pm_ret"}
          /\ wk[w].calls = <<Call("translate", wk[w].message, "auto", "en")>>
          /\ wk[w].message_english = <<>>) =>
           \/ \E i \in 1..Len(display) :
                display[i].kind = "error" /\ display[i].turn = wk[w].turn
           \/ \E i \in 1..Len(afterQ) :
                /\ afterQ[i].fn \in {"add_error", "add_processing_error"}
                /\ afterQ[i].turn = wk[w].turn

\* C5: a start request made while the conversation is active is answered with
\* an "already active" notice, leaves conversation_active and the controls as
\* they are, and starts no second loop worker.
C5_DuplicateStartIsRejected ==
  [][ (used'.starts = used.starts + 1 /\ conversation_active) =>
        /\ notices' = Append(notices, "Already Active")
        /\ conversation_active'
        /\ controls' = controls
        /\ wk' = wk ]_vars

\* C6: a recognized utterance that is a stop word after trimming and
\* lower-casing ends the loop (the worker leaves it at once and processes no
\* turn); an utterance that only contains a stop word does not end it.
C6_ExactStopWordEndsLoop ==
  [][ \A w \in LoopWorkers :
        (wk[w].pc = "listen" /\ wk'[w].user_text # wk[w].user_text) =>
          LET u == wk'[w].user_text IN
          /\ lower(strip(u)) \in StopWords => wk'[w].pc \in {"done", "finally"}
          /\ (lower(strip(u)) \notin StopWords /\ strip(u) # <<>>) =>
               wk'[w].pc \notin {"done", "finally"} ]_vars

\* C7: a turn uses the profile pair that was current when it started: the code
\* it tests at stage 1, the code it tests and translates to at stage 3, the
\* language it synthesizes in and the language it plays in are those of that
\* pair, whatever is selected while the turn runs.
C7_TurnUsesItsSnapshot ==
  /\ \A w \in Workers :
       /\ wk[w].inCode \in {"", wk[w].snapIn[3]}
       /\ wk[w].outCode \in {"", wk[w].snapOut[3]}
       /\ \A c \in CallsOf(w, "translate") : c.source = "en" => c.target = wk[w].snapOut[3]
       /\ \A c \in CallsOf(w, "synthesize") : c.target = wk[w].snapOut[3]
  /\ \A p \in plays : p.language = p.snapOut[3]

\* C8: a turn that started with a non-English input profile and a non-English
\* output profile, in a session where every adapter is there and none has
\* failed, has at its end made exactly the calls translate(raw, auto -> en),
\* infer(english), translate(reply, en -> code), synthesize(final, code),
\* play(artifact), in that order, and emitted exactly one user Message
\* followed by exactly one assistant Message.
C8_FullPipelineCallsInOrder ==
  \A w \in Workers :
    (/\ wk[w].pc \in {"pv_ret", "pt_ret", "pm_ret"}
     /\ wk[w].snapIn[3] # "en"
     /\ wk[w].snapOut[3] # "en"
     /\ used.faults = 0
     /\ has_gemini_client /\ cfg.translator /\ cfg.audio) =>
      LET code == wk[w].snapOut[3]
          english == translate(wk[w].message, "auto", "en")
          reply == chat_with_gemini(english, TRUE)
          final == translate(reply, "en", code) IN
      /\ wk[w].calls = << Call("translate", wk[w].message, "auto", "en"),
                          Call("infer", english, "", ""),
                          Call("translate", reply, "en", code),
                          Call("synthesize", final, "", code),
                          Call("play", text_to_speech(final, code, TRUE), "", "") >>
      /\ MessagesOf(wk[w].turn) = <<"user", "assistant">>

\* C9: without the API key no conversation ever starts: conversation_active
\* is never set, no loop worker is spawned, and every start request is
\* answered with a message box.
C9_NoKeyNoConversation ==
  [][ ~cfg.key =>
        /\ ~conversation_active'
        /\ \A w \in LoopWorkers : wk'[w].pc = "none"
        /\ used'.starts = used.starts + 1 => Len(notices') = Len(notices) + 1 ]_vars

\* the error Messages about the capture device, shown or scheduled
DeviceReports ==
  Cardinality({i \in 1..Len(display) :
                 /\ display[i].kind = "error"
                 /\ display[i].text \in {<<"Voice error: ">> \o DeviceError,
                                         <<"Voice recognition error: ">> \o DeviceError}})
  + Cardinality({i \in 1..Len(afterQ) : afterQ[i].fn = "add_voice_error"})

\* C10: after a capture has raised a device or recognition-API error the loop
\* worker attempts no further capture: it is on its way out or has ended, the
\* error has been reported exactly once, and once the worker has ended and
\* until the next start the conversation is not active.
C10_DeviceErrorEndsLoop ==
  \A w \in LoopWorkers :
    wk[w].device_error =>
      /\ wk[w].pc \in {"finally", "done"}
      /\ DeviceReports >= 1
      /\ (used.listens = 1 => DeviceReports = 1)
      /\ (wk[w].pc = "done" /\ \A v \in LoopWorkers : v > w => wk[v].pc = "none") =>
           ~conversation_active

\* the step reports "Could not understand audio", on the display or with
\* root.after
ReportsUnintelligible ==
  \/ /\ Len(afterQ') = Len(afterQ) + 1
     /\ afterQ'[Len(afterQ')].text = <<"Could not understand audio">>
  \/ /\ Len(display') = Len(display) + 1
     /\ display'[Len(display')].text = <<"Could not understand audio">>

\* C11: a capture timeout and an unintelligible-audio result never end the
\* conversation: the worker goes back to the loop condition with
\* conversation_active as it was, a timeout shows and schedules no Message,
\* and at the loop condition an active conversation always goes on to
\* another listen attempt, which the worker eventually makes unless the
\* conversation is stopped first.
C11_TimeoutAndUnintelligibleKeepLoop ==
  /\ [][ \A w \in LoopWorkers :
           /\ (wk[w].pc = "listen" /\ wk'[w] # wk[w] /\ used'.listens = used.listens) =>
                /\ wk'[w].pc = "loop_top"
                /\ conversation_active' = conversation_active
                /\ display' = display
                /\ afterQ' = afterQ
           /\ (wk[w].pc = "listen" /\ wk'[w] # wk[w] /\ ReportsUnintelligible) =>
                /\ wk'[w].pc = "loop_top"
                /\ conversation_active' = conversation_active
           /\ (wk[w].pc = "loop_top" /\ wk'[w] # wk[w] /\ conversation_active) =>
                wk'[w].pc = "listen" ]_vars
  /\ \A w \in LoopWorkers :
       (wk[w].pc = "loop_top" /\ conversation_active)
         ~> (wk[w].pc = "listen" \/ ~conversation_active)

\* after an unintelligible-audio result the conversation is active and the
\* worker is listening again
C11_Witness ==
  \E w \in LoopWorkers :
    /\ wk[w].pc = "listen"
    /\ conversation_active
    /\ used.listens > 0
    /\ \/ \E i \in 1..Len(display) : display[i].text = <<"Could not understand audio">>
       \/ \E i \in 1..Len(afterQ) : afterQ[i].text = <<"Could not understand audio">>

\* C12: the conversation loop ends only because of a device-level capture
\* error or an explicit stop of the user (the Stop button or a stop word): a
\* loop worker leaves its loop only after such an error, after a stop word,
\* or on finding conversation_active false; and conversation_active is set
\* to false only by stop_conversation or by the exit of a worker whose
\* capture raised such an error.
C12_LoopEndsOnlyOnDeviceErrorOrStop ==
  [][ /\ \A w \in LoopWorkers :
           (wk[w].pc \notin {"none", "done", "finally"} /\ wk'[w].pc \in {"done", "finally"}) =>
             \/ wk'[w].device_error
             \/ ~conversation_active
             \/ wk[w].pc = "listen" /\ lower(strip(wk'[w].user_text)) \in StopWords
      /\ (conversation_active /\ ~conversation_active') =>
           \/ display' = add_message(display, "system", <<"Conversation stopped">>, "ui", 0)
           \/ \E w \in LoopWorkers :
                wk[w].pc = "finally" /\ wk'[w].pc = "done" /\ wk[w].device_error ]_vars

\* the outbound translation of the turn of worker w was called and failed
OutboundFailed(w) ==
  /\ wk[w].calls # <<>>
  /\ wk[w].calls[Len(wk[w].calls)].op = "translate"
  /\ wk[w].calls[Len(wk[w].calls)].source = "en"
  /\ wk[w].response # <<>>
  /\ wk[w].translated = <<>>

\* an error Message of turn t is shown or scheduled
ErrorReported(t) ==
  \/ \E i \in 1..Len(display) : display[i].kind = "error" /\ display[i].turn = t
  \/ \E i \in 1..Len(afterQ) :
       afterQ[i].fn \in {"add_error", "add_processing_error"} /\ afterQ[i].turn = t

\* C13: when the translation of the reply to the output language fails, the
\* turn at its end has reported the failure, has delivered the untranslated
\* reply as its assistant text, and has called neither text_to_speech nor
\* play_audio.
C13_OutboundFailureDeliversReply ==
  \A w \in Workers :
    (OutboundFailed(w) /\ wk[w].pc \in {"pv_ret", "pt_ret", "pm_ret"}) =>
      /\ ErrorReported(wk[w].turn)
      /\ AssistantTexts(wk[w].turn) = {wk[w].response}
      /\ CallsOf(w, "synthesize") = {}
      /\ CallsOf(w, "play") = {}

\* text_to_speech was called in the turn of worker w and returned None
SynthesisFailed(w) ==
  /\ CallsOf(w, "synthesize") # {}
  /\ wk[w].audio_file = None

\* C14: when text_to_speech fails in a turn, the assistant Message of the
\* turn has been delivered, play_audio is not called, and by the end of the
\* turn a Message about the missing audio, other than the user and the
\* assistant Message, is shown or scheduled.
C14_SynthesisFailureIsWarned ==
  \A w \in Workers :
    SynthesisFailed(w) =>
      /\ AssistantTexts(wk[w].turn) = {wk[w].translated}
      /\ CallsOf(w, "play") = {}
      /\ wk[w].pc \in {"pv_ret", "pt_ret", "pm_ret"} =>
           \E i \in 1..Len(MessagesOf(wk[w].turn)) :
             MessagesOf(wk[w].turn)[i] \notin {"user", "assistant"}

\* C15: every turn emits exactly one user Message, before stage 1, and
\* exactly one Message of kind assistant or error: a turn that has reached
\* stage 1 has its user Message as its first Message, and a turn at its end
\* has emitted the user Message and then one assistant Message or one error
\* Message, and nothing else.
C15_OneUserOneOutcomeMessage ==
  \A w \in Workers :
    /\ wk[w].inCode # "" =>
         /\ MessagesOf(wk[w].turn) # <<>>
         /\ MessagesOf(wk[w].turn)[1] = "user"
    /\ wk[w].pc \in {"pv_ret", "pt_ret", "pm_ret"} =>
         MessagesOf(wk[w].turn) \in {<<"user", "assistant">>, <<"user", "error">>}

\* C16: the pipeline never calls a translation from "en" to "en": a
\* translation with target "en" is the translation of the input of a turn
\* whose input profile is not English, and a translation with source "en"
\* has a target other than "en".
C16_NoEnglishToEnglish ==
  \A w \in Workers :
    \A c \in CallsOf(w, "translate") :
      /\ c.target = "en" => (c.source = "auto" /\ wk[w].inCode \notin {"", "en"})
      /\ c.source = "en" => c.target # "en"

\* C17: a recognized stop word is never processed as a turn: the worker that
\* recognized it starts no turn with it, so no translation or inference call
\* is made for it and no user Message carries it.
C17_StopWordIsNoTurn ==
  \A w \in LoopWorkers :
    (wk[w].user_text # Unbound /\ lower(strip(wk[w].user_text)) \in StopWords) =>
      /\ wk[w].message # wk[w].user_text
      /\ wk[w].turn = 0
      /\ wk[w].calls = <<>>
      /\ \A i \in 1..Len(display) :
           display[i].kind = "user" => display[i].text # wk[w].user_text

\* w is the loop worker of the latest activation
LatestLoop(w) == \A v \in LoopWorkers : v > w => wk[v].pc = "none"

\* C18: every activation ends in an Idle state from which the loop can be
\* started again: once the loop worker of the latest activation has exited,
\* conversation_active becomes false; conversation_active goes from false to
\* true only by a start request; and a start request made when it is false,
\* after a loop worker has exited, is accepted and spawns a new loop worker.
C18_ExitedLoopIsIdleAndRestartable ==
  /\ \A w \in LoopWorkers :
       (wk[w].pc = "done" /\ LatestLoop(w)) ~> (~conversation_active \/ ~LatestLoop(w))
  /\ [][ /\ (~conversation_active /\ conversation_active') =>
              used'.starts = used.starts + 1
         /\ (/\ used'.starts = used.starts + 1
             /\ ~conversation_active
             /\ \E w \in LoopWorkers : wk[w].pc = "done") =>
              /\ conversation_active'
              /\ controls' = "listening"
              /\ wk[used.starts + 1].pc = "none"
              /\ wk'[used.starts + 1].pc = "loop_top" ]_vars

\* a loop worker has exited after a stop, and the loop of a later start is
\* listening
C18_Witness ==
  \E w \in LoopWorkers, v \in LoopWorkers :
    /\ w < v
    /\ wk[w].pc = "done"
    /\ wk[v].pc = "listen"
    /\ conversation_active
    /\ controls = "listening"

\* the error Messages of turn t that are shown
ErrorsShown(t) ==
  Cardinality({i \in 1..Len(display) : display[i].kind = "error" /\ display[i].turn = t})

\* C19: every failure of a voice turn or of a capture attempt that is
\* reported ends as exactly one error Message on the display: no callback
\* that delivers a report raises an exception in the Tk loop, none is bound
\* to raise one, no turn shows two error Messages, and a voice turn that
\* failed has, once nothing is scheduled any more, its error Message shown.
C19_ReportsAreDelivered ==
  /\ tkErrors = 0
  /\ \A i \in 1..Len(afterQ) : afterQ[i].fn # "name_error"
  /\ \A w \in LoopWorkers :
       /\ wk[w].turn # 0 => ErrorsShown(wk[w].turn) <= 1
       /\ (wk[w].turn # 0 /\ wk[w].pc = "pv_ret" /\ afterQ = <<>>
             /\ wk[w].calls # <<>> /\ wk[w].translated = <<>>) =>
            ErrorsShown(wk[w].turn) = 1

\* C20: a stop request made while a capture is in flight lets that one
\* blocking call finish and nothing more: a loop worker that leaves the
\* capture with conversation_active already false starts no turn.
C20_StopWaitsForOneCallOnly ==
  [][ \A w \in LoopWorkers :
        (wk[w].pc = "listen" /\ ~conversation_active /\ wk'[w] # wk[w]) =>
          /\ wk'[w].turn = 0
          /\ wk'[w].pc \notin {"pv_in", "pm_user"} ]_vars

\* the workers that are inside a turn
InTurn == {w \in Workers : wk[w].turn # 0}

\* C21: turns are processed one at a time: no two workers are inside a turn
\* at the same time, and a conversation loop is at a capture only when the
\* playback of every spoken turn before it has returned (in a session without
\* typed messages, no audio thread is still to run).
C21_TurnsOneAtATime ==
  /\ Cardinality(InTurn) <= 1
  /\ (used.sends = 0 /\ \E w \in LoopWorkers : wk[w].pc = "listen") => audio = <<>>

\* the place of an adapter call in the pipeline
StageOf(c) ==
  CASE c.op = "translate" /\ c.source = "auto" -> 1
    [] c.op = "infer" -> 2
    [] c.op = "translate" /\ c.source # "auto" -> 3
    [] c.op = "synthesize" -> 4
    [] c.op = "play" -> 5
\* what a call that returned can have returned
ReturnsOf(c) ==
  CASE c.op = "translate" -> {translate(c.text, c.source, c.target)}
    [] c.op = "infer" -> {chat_with_gemini(c.text, ok) : ok \in BOOLEAN}
    [] c.op = "synthesize" -> {text_to_speech(c.text, c.target, TRUE)}
    [] c.op = "play" -> {}

\* C22: within one turn the adapter calls are made in the order translate-in,
\* infer, translate-out, synthesize, play, each at most once; the first call
\* is handed the text of the utterance and every later call what the call
\* before it returned.  Where the playback runs on its own thread, it is
\* handed the outcome text of its turn, already shown as the assistant Message.
C22_StagesInOrderOnOutputs ==
  /\ \A w \in Workers :
       LET calls == wk[w].calls IN
       /\ \A i \in 1..Len(calls), j \in 1..Len(calls) :
            i < j => StageOf(calls[i]) < StageOf(calls[j])
       /\ calls # <<>> => calls[1].text = wk[w].message
       /\ \A i \in 1..(Len(calls) - 1) : calls[i + 1].text \in ReturnsOf(calls[i])
  /\ \A t \in {audio[i].turn : i \in 1..Len(audio)} \cup {p.turn : p \in plays} :
       {audio[i].text : i \in {j \in 1..Len(audio) : audio[j].turn = t}}
         \cup {p.text : p \in {q \in plays : q.turn = t}}
       \subseteq {display[i].text : i \in {j \in 1..Len(display) :
                     display[j].turn = t /\ display[j].kind = "assistant"}}
\* a turn that has made all five calls
C22_Witness ==
  \E w \in Workers : Len(wk[w].calls) = 5 /\ wk[w].pc \in {"pv_ret", "pt_ret"}

\* C23: the display holds the Messages in utterance order: the Messages of
\* one turn are not separated by a Message of another turn (whichever of the
\* two turns is the earlier, all its Messages come before those of the other);
\* the user Message of a turn is the first Message of that turn; and a user
\* Message shows the text of the utterance of its turn.
C23_DisplayInUtteranceOrder ==
  \A i \in 1..Len(display), k \in 1..Len(display) :
    (i <= k /\ display[i].turn # 0 /\ display[i].turn = display[k].turn) =>
      /\ \A j \in i..k : display[j].turn \in {0, display[i].turn}
      /\ i < k => display[k].kind # "user"
      /\ display[i].kind = "user" =>
           \A w \in Workers : wk[w].turn = display[i].turn => display[i].text = wk[w].message

\* C24: only the foreground thread changes what is presented: every Message
\* appended to the display is appended by the foreground thread, and the
\* start button and status label are set back to ready by the foreground
\* thread, not in a step of a background worker.
C24_OnlyForegroundPresents ==
  [][ /\ \A i \in (Len(display) + 1)..Len(display') : display'[i].by = "ui"
      /\ (controls = "listening" /\ controls' = "ready") => wk' = wk ]_vars

\* C25: a capture that returns an empty or whitespace-only text starts no
\* turn, emits no Message, schedules nothing, and leaves the loop at its
\* next iteration with the conversation still as it was.
C25_BlankUtteranceIsNoTurn ==
  [][ \A w \in LoopWorkers :
        (/\ wk[w].pc = "listen"
         /\ used'.listens = used.listens + 1
         /\ wk'[w].user_text # wk[w].user_text
         /\ strip(wk'[w].user_text) = <<>>) =>
          /\ wk'[w].turn = 0
          /\ wk'[w].pc \in {"loop_top", "listen"}
          /\ display' = display
          /\ afterQ' = afterQ ]_vars

\* the translation codes a profile can hold
Codes == {Profile(n)[3] : n \in LangNames}

\* process_text_message of gui_app.py as a function: the turn on `message`
\* when the four reads of the profiles give inC (stage 1), outC (the test of
\* stage 3), tgtC (its call) and synC (stage 4), and the adapters answer as
\* `o` says; the calls made and the kinds of the Messages added
process_text_message(message, inC, outC, tgtC, synC, o) ==
  LET r0 == [NoWorker EXCEPT !.message = message]
      r1 == Inbound(r0, TRUE, inC, o[1], "infer", "pt_exc")
      r2 == IF r1.pc = "infer"
            THEN Infer(r1, has_gemini_client, o[2], "pt_out", "pt_exc") ELSE r1
      r3 == IF r2.pc = "pt_out" THEN Outbound(r2, TRUE, outC, "pt_tr", "pt_say") ELSE r2
      r4 == IF r3.pc = "pt_tr"
            THEN OutboundTranslate(r3, tgtC, o[3], "pt_say", "pt_exc") ELSE r3
      r5 == IF r4.pc = "pt_say" THEN Synthesize(r4, synC, o[4], "play", "pt_ret") ELSE r4
      r6 == IF r5.pc = "play" THEN Play(r5, o[5], "pt_ret", "pt_exc") ELSE r5 IN
  [ calls |-> r6.calls,
    kinds |-> <<"user">>
              \o (IF r4.pc = "pt_say" THEN <<"assistant">> ELSE <<>>)
              \o (IF r6.pc = "pt_exc" THEN <<"error">> ELSE <<>>) ]

\* C26: a spoken turn of gui_app.py is the typed turn on the same text: at
\* its end it has made the adapter calls, with the same arguments, and
\* emitted the Message kinds that process_text_message makes and emits on
\* that text for some reading of the profiles and some outcomes of the
\* adapters.
C26_SpokenTurnIsTypedTurn ==
  \A w \in LoopWorkers :
    wk[w].pc = "pv_ret" =>
      \E inC \in Codes, outC \in Codes, tgtC \in Codes, synC \in Codes,
         o \in [1..5 -> BOOLEAN] :
        LET typed == process_text_message(wk[w].message, inC, outC, tgtC, synC, o) IN
        /\ typed.calls = wk[w].calls
        /\ typed.kinds = MessagesOf(wk[w].turn)

\* the conversation-loop workers that are inside a capture or inside a turn
RunningLoops ==
  {w \in LoopWorkers : wk[w].pc \notin {"none", "done", "loop_top", "finally"}}

\* C27: whatever start and stop requests were made, at most one
\* conversation-loop worker is capturing or processing an utterance.
C27_AtMostOneLoopWorker ==
  Cardinality(RunningLoops) <= 1

\* C28: an accepted activation is ended (conversation_active set to false,
\* or the controls set back to ready) only by the Stop button or by the loop
\* worker of that same activation: through the stop_conversation callback it
\* scheduled, or in its own exit.  A worker of an earlier activation does not
\* end it.
C28_OnlyOwnActivationEnds ==
  [][ (conversation_active /\ (~conversation_active' \/ controls' = "ready")) =>
        \/ used'.stops = used.stops + 1
        \/ \E w \in LoopWorkers :
             /\ LatestLoop(w)
             /\ \/ /\ afterQ # <<>>
                   /\ Head(afterQ).fn = "stop_conversation"
                   /\ Head(afterQ).w = w
                   /\ afterQ' = Tail(afterQ)
                \/ /\ wk[w].pc = "finally"
                   /\ wk'[w].pc = "done" ]_vars

====
